---------------------------- MODULE Spec2Model ----------------------------
(***************************************************************************)
(* One POST /recommend request of the SHL assessment recommender           *)
(* (src/app.py), as issued by a direct API client or by the Streamlit      *)
(* form (src/streamlit_app.py).                                            *)
(*                                                                         *)
(* Representation.  Optional[int] fields are records [some, v]; None is    *)
(* [some |-> FALSE, v |-> 0].  Strings are sequences of tokens: a query    *)
(* text is a sequence of characters, a heading a sequence of word and      *)
(* whitespace tokens, a description and a duration a sequence of           *)
(* [k, n, w] tokens (k = "num" for a run of digits with value n, "ws" for  *)
(* whitespace, "word" for a word w).  Similarity scores are hundredths.    *)
(***************************************************************************)
EXTENDS Integers, Sequences, FiniteSets

VARIABLES
    request,               \* the QueryRequest
    pc,                    \* where the handler is
    attempt,               \* loop variable of the retry loop
    fetches,               \* session.get calls started so far
    failed_fetches,        \* of those, ended in a timeout or a network error
    last_outcome,          \* how the most recent attempt ended
    scrape_result,         \* how scrape_shl_catalog ended
    assessments,
    embed_calls,           \* model.encode calls started so far
    similarities,
    ranked_assessments,
    filtered_assessments,
    response               \* the HTTP response, status 0 while there is none

vars == <<request, pc, attempt, fetches, failed_fetches, last_outcome,
          scrape_result, assessments, embed_calls, similarities,
          ranked_assessments, filtered_assessments, response>>

-----------------------------------------------------------------------------
(* Bounds and program constants *)

MaxSections == 2

max_retries == 3

RelevanceFloor == 10

DefaultMaxResults == 10

SliderMin == 0

SliderMax == 120

SliderStep == 5

-----------------------------------------------------------------------------
(* Optional[int] *)

None == [some |-> FALSE, v |-> 0]

Some(n) == [some |-> TRUE, v |-> n]

\* Python truthiness of an Optional[int]: None and 0 are both falsy.
Truthy(o) == o.some /\ o.v # 0

Min(a, b) == IF a <= b THEN a ELSE b

Max(a, b) == IF a >= b THEN a ELSE b

-----------------------------------------------------------------------------
(* Strings *)

Whitespace == {" ", "\t", "\n"}

RECURSIVE lstrip(_)
lstrip(s) ==
    IF s = <<>> THEN <<>>
    ELSE IF s[1] \in Whitespace THEN lstrip(Tail(s)) ELSE s

RECURSIVE rstrip(_)
rstrip(s) ==
    IF s = <<>> THEN <<>>
    ELSE IF s[Len(s)] \in Whitespace THEN rstrip(SubSeq(s, 1, Len(s) - 1))
    ELSE s

\* The check written as "if not request.text": nothing is trimmed.
strip_Missing(s) == s

\* str.strip()
strip(s) == rstrip(lstrip(s))

Num(n) == [k |-> "num", n |-> n, w |-> ""]

WS == [k |-> "ws", n |-> 0, w |-> " "]

Word(w) == [k |-> "word", n |-> 0, w |-> w]

\* The part of a word the alternation (?:minutes?|mins?) matches at its
\* start under re.IGNORECASE, "" when it matches nothing.
UnitPrefix(w) ==
    CASE w \in {"minutes"} -> "minutes"
      [] w \in {"Minutes"} -> "Minutes"
      [] w \in {"minute"} -> "minute"
      [] w \in {"mins"} -> "mins"
      [] w \in {"min", "minimum"} -> "min"
      [] OTHER -> ""

\* Index of the first non-whitespace token at or after i (Len+1 when none).
RECURSIVE SkipWs(_, _)
SkipWs(d, i) ==
    IF i > Len(d) THEN i
    ELSE IF d[i].k = "ws" THEN SkipWs(d, i + 1) ELSE i

\* Does \d+\s*(?:minutes?|mins?) match starting at token i?
UnitAt(d, i) ==
    LET j == SkipWs(d, i + 1)
    IN  d[i].k = "num" /\ j <= Len(d) /\ d[j].k = "word"
        /\ UnitPrefix(d[j].w) # ""

\* re.search(r'\d+\s*(?:minutes?|mins?)', description, re.IGNORECASE) and
\* the 'Not specified' fallback.
ExtractDuration(description) ==
    LET hits == {i \in 1..Len(description) : UnitAt(description, i)}
    IN  IF hits = {} THEN <<Word("Not"), WS, Word("specified")>>
        ELSE LET i == CHOOSE x \in hits : \A y \in hits : x <= y
                 j == SkipWs(description, i + 1)
             IN  SubSeq(description, i, j - 1)
                   \o <<Word(UnitPrefix(description[j].w))>>

\* re.search(r'\d+', assessment.duration): the first run of digits, as
\* Some(int(...)), or None when the duration holds no digit.
DurationMatch(duration) ==
    LET hits == {i \in 1..Len(duration) : duration[i].k = "num"}
    IN  IF hits = {} THEN None
        ELSE Some(duration[CHOOSE x \in hits : \A y \in hits : x <= y].n)


-----------------------------------------------------------------------------
(* Catalog extraction: scrape_shl_catalog *)

base_url == <<"https://www.shl.com">>

\* Keywords of the test-type detection that occur in the lower-cased word.
KeywordsIn(w) ==
    CASE w \in {"Ability", "ability"} -> {"ability"}
      [] w \in {"Cognitive"} -> {"cognitive"}
      [] w \in {"Personality"} -> {"personality"}
      [] w \in {"Style"} -> {"style"}
      [] w \in {"Skills", "skills"} -> {"skill"}
      [] w \in {"Knowledge"} -> {"knowledge"}
      [] OTHER -> {}

KeywordsOfName(name) == UNION {KeywordsIn(name[i]) : i \in 1..Len(name)}

KeywordsOfDescription(description) ==
    UNION {KeywordsIn(description[i].w) : i \in 1..Len(description)}

\* Lines 111-120: first category with a keyword in the name or description.
TestType(name, description) ==
    LET found == KeywordsOfName(name) \cup KeywordsOfDescription(description)
    IN  IF found \cap {"cognitive", "ability", "aptitude"} # {} THEN "Cognitive"
        ELSE IF found \cap {"personality", "behavior", "style"} # {}
             THEN "Personality"
        ELSE IF found \cap {"skill", "proficiency", "knowledge"} # {}
             THEN "Skills"
        ELSE "General"

\* Lines 91-100: the first anchor's href resolved against base_url; the empty
\* string when the section has no anchor with an href.
ResolveUrl(section) ==
    IF ~section.has_href THEN <<>>
    ELSE IF section.href # <<>> /\ section.href[1] = "/"
         THEN base_url \o section.href
    ELSE IF section.href # <<>> /\ section.href[1] = "http"
         THEN section.href
    ELSE base_url \o <<"/">> \o section.href

\* Lines 87-88: trimmed text of the first heading, '' without a heading.
SectionName(section) ==
    IF section.has_heading THEN strip(section.heading) ELSE <<>>

\* Lines 123-130: Assessment(...) built from one section.
MakeAssessment(section) ==
    [name |-> SectionName(section),
     url |-> ResolveUrl(section),
     remote_testing |-> TRUE,
     adaptive_support |-> FALSE,
     duration |-> ExtractDuration(section.description),
     test_type |-> TestType(SectionName(section), section.description)]

\* A section kept on its name alone.
KeepSection_NameOnly(section) == SectionName(section) # <<>>

\* Line 122: a section is kept only with a non-empty name and url.
KeepSection(section) ==
    SectionName(section) # <<>> /\ ResolveUrl(section) # <<>>

\* Lines 85-130: the records of the kept sections, in page order.
RECURSIVE ExtractAssessments(_)
ExtractAssessments(sections) ==
    IF sections = <<>> THEN <<>>
    ELSE (IF KeepSection(Head(sections))
          THEN <<MakeAssessment(Head(sections))>> ELSE <<>>)
         \o ExtractAssessments(Tail(sections))

\* Lines 71-83: the sections of the first selector pattern that matches
\* anything, else those of the general keyword search (index 4).
FindSections(page) ==
    LET hits == {i \in 1..3 : page[i] # <<>>}
    IN  IF hits # {} THEN page[CHOOSE i \in hits : \A j \in hits : i <= j]
        ELSE page[4]

\* Lines 60-135: outcome of parsing one fetched page.
ParsePage(page) ==
    LET sections == FindSections(page)
        found == ExtractAssessments(sections)
    IN  IF sections = <<>>
        THEN [outcome |-> "no_sections", assessments |-> <<>>]
        ELSE IF found = <<>>
        THEN [outcome |-> "no_records", assessments |-> <<>>]
        ELSE [outcome |-> "ok", assessments |-> found]

-----------------------------------------------------------------------------
(* Inputs *)

Section(heading, href, description) ==
    [has_heading |-> heading.has, heading |-> heading.s,
     has_href |-> href.has, href |-> href.s,
     description |-> description]

Str(s) == [has |-> TRUE, s |-> s]

Absent == [has |-> FALSE, s |-> <<>>]

\* Catalog sections the remote page may contain.
CatalogSections ==
    { Section(Str(<<"Java", " ", "Skills", " ", "Test", " ">>),
              Str(<<"/", "java">>),
              <<Word("Takes"), WS, Num(40), WS, Word("minutes")>>),
      Section(Str(<<"Java", " ", "Skills", " ", "Test">>),
              Str(<<"java-v2">>),
              <<Num(40), WS, Word("minutes"), WS, Word("timed")>>),
      Section(Str(<<"Personality", " ", "Style", " ", "Inventory">>),
              Str(<<"http", "://cdn.shl.com/psi">>),
              <<Num(30), Word("mins"), WS, Word("online")>>),
      Section(Str(<<"General", " ", "Ability">>),
              Str(<<>>),
              <<Word("Untimed"), WS, Num(2), WS, Word("parts")>>),
      Section(Str(<<" ">>), Str(<<"/", "blank">>),
              <<Num(15), WS, Word("minutes")>>),
      Section(Str(<<"Brochure">>), Absent, <<>>) }

RECURSIVE SeqsUpTo(_, _)
SeqsUpTo(S, n) ==
    IF n = 0 THEN {<<>>}
    ELSE LET shorter == SeqsUpTo(S, n - 1)
         IN  shorter \cup {Append(q, x) : q \in shorter, x \in S}

\* A page is the list of sections each of the four searches finds on it.  A
\* more general search finds the sections of the specific one and more.
PageWith(first, secs) ==
    [i \in 1..4 |-> IF i < first THEN <<>>
                    ELSE IF i = first THEN secs ELSE secs \o secs]

\* Single-section pages found by any one of the searches, longer pages found
\* by the first pattern.
Pages ==
    {PageWith(first, secs) :
        first \in 1..4, secs \in SeqsUpTo(CatalogSections, 1)}
    \cup {PageWith(1, secs) : secs \in SeqsUpTo(CatalogSections, MaxSections)}

FetchResults ==
    {[kind |-> "timeout", page |-> [i \in 1..4 |-> <<>>]],
     [kind |-> "network", page |-> [i \in 1..4 |-> <<>>]],
     [kind |-> "unexpected", page |-> [i \in 1..4 |-> <<>>]]}
    \cup {[kind |-> "page", page |-> p] : p \in Pages}

Texts ==
    { <<>>, <<" ">>, <<"\t", " ", "\n">>, <<"j">>, <<" ", "j", "d", "\n">> }

SliderValues ==
    {v \in SliderMin..SliderMax : v % SliderStep = 0}

MaxResultsValues ==
    {None, Some(-1), Some(0), Some(1), Some(DefaultMaxResults)}

MaxDurationValues ==
    {None, Some(-5)} \cup {Some(v) : v \in SliderValues \cap {0, 30, 35}}

Requests ==
    [text : Texts, max_results : MaxResultsValues,
     max_duration : MaxDurationValues]

\* Cosine similarities (in hundredths) the embedding model may produce.
Scores == {5, 10, 20}


-----------------------------------------------------------------------------
(* Ranking, filtering and assembly: recommend_assessments *)

\* Line 167: the text an assessment is embedded from.
EmbeddingText(a) == <<a.name, a.test_type, a.duration>>

\* Lines 200: the similarity vectors a deterministic embedding model can
\* give for the records: equal embedding texts get equal scores.
PossibleSimilarities(records) ==
    {s \in [1..Len(records) -> Scores] :
        \A i, j \in 1..Len(records) :
            EmbeddingText(records[i]) = EmbeddingText(records[j])
                => s[i] = s[j]}

\* Line 203: list(zip(similarities, assessments)).
Zip(sims, records) ==
    [i \in 1..Len(records) |-> [sim |-> sims[i], assessment |-> records[i]]]

\* Line 204: tuples compare by score first and by record on a tie; the
\* Assessment model defines == but no ordering, so sorting raises TypeError
\* as soon as two tuples tie on the score and differ in the record.
SortRaises(pairs) ==
    \E i, j \in 1..Len(pairs) :
        /\ i < j
        /\ pairs[i].sim = pairs[j].sim
        /\ pairs[i].assessment # pairs[j].assessment

RemoveAt(s, i) == SubSeq(s, 1, i - 1) \o SubSeq(s, i + 1, Len(s))

\* Line 204: list.sort(reverse=True), highest score first, equal tuples in
\* their original order.
RECURSIVE SortReverse(_)
SortReverse(pairs) ==
    IF pairs = <<>> THEN <<>>
    ELSE LET best == {i \in 1..Len(pairs) :
                        \A j \in 1..Len(pairs) : pairs[j].sim <= pairs[i].sim}
             i == CHOOSE x \in best : \A y \in best : x <= y
         IN  <<pairs[i]>> \o SortReverse(RemoveAt(pairs, i))

\* The filter without its else branch: an unreadable duration is dropped
\* whenever a ceiling is given.
KeepByDuration_DropUnknown(assessment, max_duration) ==
    IF Truthy(max_duration)
    THEN LET duration_match == DurationMatch(assessment.duration)
         IN  duration_match.some /\ duration_match.v <= max_duration.v
    ELSE TRUE

\* Lines 213-224: does the duration filter keep this assessment?
KeepByDuration(assessment, max_duration) ==
    IF Truthy(max_duration)
    THEN LET duration_match == DurationMatch(assessment.duration)
         IN  IF duration_match.some
             THEN duration_match.v <= max_duration.v
             ELSE TRUE
    ELSE TRUE

\* Lines 207-224: the loop over ranked_assessments.
RECURSIVE FilterAssessments(_, _)
FilterAssessments(ranked, max_duration) ==
    IF ranked = <<>> THEN <<>>
    ELSE LET sim == Head(ranked).sim
             assessment == Head(ranked).assessment
             rest == FilterAssessments(Tail(ranked), max_duration)
         IN  IF sim < RelevanceFloor THEN rest
             ELSE IF KeepByDuration(assessment, max_duration)
                  THEN <<assessment>> \o rest
             ELSE rest

\* Line 239: filtered_assessments[:max_results] with Python slice semantics
\* (None keeps everything, a negative bound counts from the end).
Slice(s, max_results) ==
    IF ~max_results.some THEN s
    ELSE IF max_results.v >= 0 THEN SubSeq(s, 1, Min(max_results.v, Len(s)))
    ELSE SubSeq(s, 1, Max(0, Len(s) + max_results.v))

-----------------------------------------------------------------------------
(* The request as a state machine *)

NoResponse == [status |-> 0, detail |-> "", minutes |-> 0,
               recommendations |-> <<>>]

HTTPException(status_code, detail) ==
    [status |-> status_code, detail |-> detail, minutes |-> 0,
     recommendations |-> <<>>]

Init ==
    /\ request \in Requests
    /\ pc = "validate"
    /\ attempt = 0
    /\ fetches = 0
    /\ failed_fetches = 0
    /\ last_outcome = "none"
    /\ scrape_result = "pending"
    /\ assessments = <<>>
    /\ embed_calls = 0
    /\ similarities = <<>>
    /\ ranked_assessments = <<>>
    /\ filtered_assessments = <<>>
    /\ response = NoResponse

\* Lines 178-179: the empty-text check that opens the handler.
Validate ==
    /\ pc = "validate"
    /\ IF strip(request.text) = <<>>
       THEN /\ response' = HTTPException(400, "empty_text")
            /\ pc' = "done"
       ELSE /\ pc' = "scrape"
            /\ UNCHANGED response
    /\ UNCHANGED <<request, attempt, fetches, failed_fetches, last_outcome,
                   scrape_result, assessments,
                   embed_calls, similarities, ranked_assessments,
                   filtered_assessments>>

\* The retry clauses also catching the ValueError of a parse failure.
IsRetried_WithParseFailure(outcome) ==
    outcome \in {"timeout", "network", "no_sections", "no_records"}

\* Lines 137 and 143: the exceptions of an attempt that the retry loop
\* handles itself (requests.Timeout, requests.RequestException).
IsRetried(outcome) == outcome \in {"timeout", "network"}

\* The final-attempt test off by one.
IsLastAttempt_OffByOne(a) == a = max_retries

\* Lines 138 and 144: the test for the final attempt.
IsLastAttempt(a) == a = max_retries - 1

\* Lines 55-158 and 182-185: one iteration of the retry loop, with the
\* handler's check of what scrape_shl_catalog returned.
FetchAttempt ==
    /\ pc = "scrape"
    /\ attempt < max_retries
    /\ \E fetch \in FetchResults :
         LET parsed == ParsePage(fetch.page)
             outcome == IF fetch.kind = "page" THEN parsed.outcome
                        ELSE fetch.kind
         IN  /\ fetches' = fetches + 1
             /\ failed_fetches' = failed_fetches
                    + (IF outcome \in {"timeout", "network"} THEN 1 ELSE 0)
             /\ last_outcome' = outcome
             /\ IF outcome = "ok"
                THEN \* line 135 returns the list, line 184 tests it
                     /\ scrape_result' = "list"
                     /\ assessments' = parsed.assessments
                     /\ attempt' = attempt
                     /\ IF parsed.assessments = <<>>
                        THEN /\ response' = HTTPException(500, "no_catalog")
                             /\ pc' = "done"
                        ELSE /\ pc' = "process_query"
                             /\ UNCHANGED response
                ELSE IF IsRetried(outcome)
                THEN IF IsLastAttempt(attempt)
                     THEN /\ scrape_result' = "raised"
                          /\ response' = HTTPException(503, outcome)
                          /\ pc' = "done"
                          /\ UNCHANGED <<attempt, assessments>>
                     ELSE /\ attempt' = attempt + 1
                          /\ UNCHANGED assessments
                          /\ IF attempt + 1 < max_retries
                             THEN UNCHANGED <<scrape_result, response, pc>>
                             ELSE \* the loop ends: the function returns
                                  \* None and line 184 rejects it
                                  /\ scrape_result' = "none"
                                  /\ response' =
                                       HTTPException(500, "no_catalog")
                                  /\ pc' = "done"
                ELSE IF outcome \in {"no_sections", "no_records"}
                THEN \* lines 149-153: ValueError
                     /\ scrape_result' = "raised"
                     /\ response' = HTTPException(500, "parse")
                     /\ pc' = "done"
                     /\ UNCHANGED <<attempt, assessments>>
                ELSE \* lines 154-158: any other exception
                     /\ scrape_result' = "raised"
                     /\ response' = HTTPException(500, "unexpected_fetch")
                     /\ pc' = "done"
                     /\ UNCHANGED <<attempt, assessments>>
    /\ UNCHANGED <<request, embed_calls, similarities, ranked_assessments,
                   filtered_assessments>>

\* Lines 188-191: embedding the query succeeds or raises.
ProcessQuery ==
    /\ pc = "process_query"
    /\ embed_calls' = embed_calls + 1
    /\ \E ok \in BOOLEAN :
         IF ok THEN /\ pc' = "get_assessment_embeddings"
                    /\ UNCHANGED response
         ELSE /\ response' = HTTPException(500, "query_embedding")
              /\ pc' = "done"
    /\ UNCHANGED <<request, attempt, fetches, failed_fetches, last_outcome,
                   scrape_result, assessments,
                   similarities, ranked_assessments, filtered_assessments>>

\* Lines 194-197: embedding the assessments succeeds or raises.
GetAssessmentEmbeddings ==
    /\ pc = "get_assessment_embeddings"
    /\ embed_calls' = embed_calls + 1
    /\ \E ok \in BOOLEAN :
         IF ok THEN /\ pc' = "rank"
                    /\ UNCHANGED response
         ELSE /\ response' = HTTPException(500, "assessment_embedding")
              /\ pc' = "done"
    /\ UNCHANGED <<request, attempt, fetches, failed_fetches, last_outcome,
                   scrape_result, assessments,
                   similarities, ranked_assessments, filtered_assessments>>

\* Lines 200-204 (and 244-245 when the sort raises).
Rank ==
    /\ pc = "rank"
    /\ \E sims \in PossibleSimilarities(assessments) :
         /\ similarities' = sims
         /\ IF SortRaises(Zip(sims, assessments))
            THEN /\ response' = HTTPException(500, "unexpected")
                 /\ pc' = "done"
                 /\ UNCHANGED ranked_assessments
            ELSE /\ ranked_assessments' = SortReverse(Zip(sims, assessments))
                 /\ pc' = "filter"
                 /\ UNCHANGED response
    /\ UNCHANGED <<request, attempt, fetches, failed_fetches, last_outcome,
                   scrape_result, assessments,
                   embed_calls, filtered_assessments>>

\* Lines 207-240: the filter loop, the 404 outcomes and the 200 response.
FilterAndRespond ==
    /\ pc = "filter"
    /\ LET kept == FilterAssessments(ranked_assessments, request.max_duration)
       IN  /\ filtered_assessments' = kept
           /\ response' =
                IF kept = <<>>
                THEN IF Truthy(request.max_duration)
                     THEN [HTTPException(404, "duration_criteria")
                             EXCEPT !.minutes = request.max_duration.v]
                     ELSE HTTPException(404, "no_relevant")
                ELSE [status |-> 200, detail |-> "", minutes |-> 0,
                      recommendations |-> Slice(kept, request.max_results)]
    /\ pc' = "done"
    /\ UNCHANGED <<request, attempt, fetches, failed_fetches, last_outcome,
                   scrape_result, assessments,
                   embed_calls, similarities, ranked_assessments>>

Next ==
    \/ Validate
    \/ FetchAttempt
    \/ ProcessQuery
    \/ GetAssessmentEmbeddings
    \/ Rank
    \/ FilterAndRespond

Spec == Init /\ [][Next]_vars


-----------------------------------------------------------------------------
(* Vocabulary of the properties *)

Range(s) == {s[i] : i \in 1..Len(s)}

Blank(text) == \A i \in 1..Len(text) : text[i] \in Whitespace

\* The handler got as far as the filter loop, which then ran to its end.
FilterRan == pc = "done" /\ response.status \in {200, 404}

\* Indices of the extracted records that reach the relevance floor.
Relevant == {i \in 1..Len(similarities) : similarities[i] >= RelevanceFloor}

Parseable(a) == DurationMatch(a.duration).some

\* The duration filter as specified: no ceiling keeps everything, an
\* unreadable duration is kept, a readable one is kept up to the ceiling.
WithinCeiling(a, m) ==
    ~m.some \/ ~Parseable(a) \/ DurationMatch(a.duration).v <= m.v

\* Indices of the candidates that pass the floor and the duration filter.
FilteredSet == {i \in Relevant : WithinCeiling(assessments[i], request.max_duration)}

\* Score of a recommended record.
ScoreOf(a) ==
    similarities[CHOOSE i \in 1..Len(assessments) : assessments[i] = a]

Tied(i, j) ==
    /\ i \in 1..Len(similarities) /\ j \in 1..Len(similarities)
    /\ i < j
    /\ similarities[i] = similarities[j]

\* First position of a record in the ranked list, 0 when it is not there.
RankOf(a) ==
    LET at == {k \in 1..Len(ranked_assessments) :
                 ranked_assessments[k].assessment = a}
    IN  IF at = {} THEN 0 ELSE CHOOSE k \in at : \A l \in at : k <= l

-----------------------------------------------------------------------------
(* Properties *)

\* C1: a request with non-empty text whose extraction and embedding
\* succeeded and in which some record scores at least 0.10 is answered with
\* exactly min(max_results, |filtered set|) recommendations, in
\* non-increasing order of score (no bound on the count when max_results is
\* null; an error response carries no recommendation).
C1_LengthAndOrder ==
    (pc = "done" /\ ~Blank(request.text) /\ Relevant # {})
        => /\ Len(response.recommendations) =
                IF request.max_results.some
                THEN Min(request.max_results.v, Cardinality(FilteredSet))
                ELSE Cardinality(FilteredSet)
           /\ \A k \in 1..(Len(response.recommendations) - 1) :
                ScoreOf(response.recommendations[k])
                    >= ScoreOf(response.recommendations[k + 1])

\* C2: once the filter has run, a candidate that reaches the floor and has a
\* readable duration d is in the filtered set exactly when d <= max_duration,
\* for every integer max_duration of the request.
C2_DurationIff ==
    (FilterRan /\ request.max_duration.some)
        => \A i \in Relevant :
              Parseable(assessments[i])
                => (assessments[i] \in Range(filtered_assessments)
                      <=> DurationMatch(assessments[i].duration).v
                            <= request.max_duration.v)

\* C3: at most three fetches are made, a fetch follows only fetches that
\* ended in a timeout or a network error, and the request ends with 503
\* exactly when three fetches ended that way.
C3_RetryBudget ==
    /\ fetches <= 3
    /\ failed_fetches >= fetches - 1
    /\ last_outcome \notin {"none", "timeout", "network"} => pc # "scrape"
    /\ response.status = 503 => pc = "done"
    /\ pc = "done" => (response.status = 503 <=> failed_fetches = 3)

C3_Witness ==
    /\ pc = "done" /\ response.status = 503
    /\ fetches = 3 /\ failed_fetches = 3

\* C4: a request whose text is empty or only whitespace never starts a fetch
\* or an embedding call and ends with 400.
C4_BlankTextRejectedFirst ==
    Blank(request.text)
        => /\ fetches = 0
           /\ embed_calls = 0
           /\ pc \in {"validate", "done"}
           /\ pc = "done" => response.status = 400

C4_Witness ==
    /\ Blank(request.text) /\ request.text # <<>>
    /\ pc = "done" /\ response.status = 400 /\ fetches = 0

\* C5: a 404 carries the duration message exactly when some candidate
\* reached the floor and the duration ceiling removed them all, and the
\* no-relevant-assessments message otherwise.
C5_NotFoundMessage ==
    (pc = "done" /\ response.status = 404)
        => /\ response.detail = "duration_criteria"
                <=> (Relevant # {} /\ Truthy(request.max_duration))
           /\ response.detail = "no_relevant"
                <=> (Relevant = {} \/ ~Truthy(request.max_duration))

\* C6: scrape_shl_catalog returns a non-empty list of records with a name
\* and a url, or raises an HTTP error; it never returns nothing, and a page
\* with no usable record ends the request with 500.
C6_ScrapeResult ==
    /\ scrape_result # "none"
    /\ scrape_result = "list"
         => /\ assessments # <<>>
            /\ \A i \in 1..Len(assessments) :
                 assessments[i].name # <<>> /\ assessments[i].url # <<>>
    /\ scrape_result = "raised"
         => pc = "done" /\ response.status \in {500, 503}
    /\ last_outcome = "no_records"
         => pc = "done" /\ response.status = 500

C6_Witness ==
    /\ last_outcome = "no_records" /\ response.status = 500

\* C7: once the filter has run, every candidate that reaches the floor and
\* has no readable duration is in the filtered set, whatever max_duration is.
C7_UnparseableKept ==
    FilterRan
        => \A i \in Relevant :
              ~Parseable(assessments[i])
                => assessments[i] \in Range(filtered_assessments)

C7_Witness ==
    /\ FilterRan /\ Truthy(request.max_duration)
    /\ \E i \in Relevant : ~Parseable(assessments[i])
    /\ \E i \in Relevant : Parseable(assessments[i])
          /\ assessments[i] \notin Range(filtered_assessments)

\* C8: when two extracted records get equal scores the request does not
\* fail on it and the two stand in the ranked list in extraction order.
C8_TiesKeepOrder ==
    (pc = "done" /\ \E i, j \in 1..Len(similarities) : Tied(i, j))
        => /\ response.status # 500
           /\ \A i, j \in 1..Len(similarities) :
                Tied(i, j)
                  => RankOf(assessments[i]) <= RankOf(assessments[j])

\* C9: an attempt that ends in a parse failure, the first or a later one,
\* ends the request with 500 and is the last fetch.
C9_ParseFailureFatal ==
    last_outcome \in {"no_sections", "no_records"}
        => /\ pc = "done"
           /\ response.status = 500
           /\ scrape_result = "raised"

C9_Witness ==
    /\ last_outcome \in {"no_sections", "no_records"}
    /\ failed_fetches = 2
    /\ response.status = 500

\* C10: a 200 response carries at least one recommendation, whatever
\* max_results is.
C10_NoEmptySuccess ==
    response.status = 200 => response.recommendations # <<>>

=============================================================================
